---- MODULE Spec2Model ----
(***************************************************************************)
(* Model of the offline synchronisation queue of the POS frontend          *)
(* (services/offlineSync.ts, class OfflineSyncService) together with the   *)
(* IndexedDB requests it issues and the page life cycle around it.         *)
(*                                                                         *)
(* An async method is split at its await points: one action runs the code  *)
(* from one await (or the call) to the next.  IndexedDB requests on the    *)
(* syncQueue object store are served in the order they were placed; the    *)
(* action that serves a request also runs its onsuccess / onerror handler. *)
(*                                                                         *)
(* A PendingSync object is named by a handle [id, data, inc]: id and data  *)
(* never change, inc tells apart the objects that carry the same record    *)
(* (the one addToSyncQueue built, the ones loadSyncQueue got from getAll). *)
(* The one field that is written, retries, lives in the heap `retries`,    *)
(* which keeps the objects that can still be reached.                      *)
(***************************************************************************)
EXTENDS Integers, Sequences, FiniteSets, TLC

\* ---- bounds of the model ------------------------------------------------
MaxOps == 3        \* addToSyncQueue calls made in one behaviour
MaxTime == 2       \* values Date.now() takes
MaxFails == 6      \* failed attempts counted on the reachable objects at once
MaxIdb == 2        \* IndexedDB requests in flight at once

\* ---- program constants --------------------------------------------------
RetryCeiling == 5  \* item.retries > 5

Rnds == {1, 2}     \* Math.random() suffixes, ranked in key (string) order
Passes == {1, 2}   \* syncWhenOnline invocations running at once
Solo == {1}        \* the one invocation of an application that awaits it
Ops == 1..MaxOps   \* payloads: the n-th addToSyncQueue call carries data n
Ids == [ts : 1..MaxTime, rnd : Rnds]
NoId == [ts |-> 0, rnd |-> 0]
NoItem == [id |-> NoId, data |-> 0, retries |-> 0]

VARIABLES
  now,        \* Date.now()
  online,     \* navigator.onLine
  dbOpen,     \* this.db !== null
  opens,      \* indexedDB.open requests in flight; 0 = init() at import,
              \* d > 0 = init() awaited by the addToSyncQueue call with data d,
              \* Cached = init() awaited by the oldest call in waiting that
              \* has no open request before it
  idb,        \* requests in flight on the syncQueue object store, in order
  store,      \* the durable syncQueue object store (records, keyPath id)
  retries,    \* item.retries of every reachable PendingSync object
  syncQueue,  \* this.syncQueue: sequence of object handles
  pass,       \* the syncWhenOnline invocations
  listeners,  \* 'online' listeners registered by syncWhenOnline
  nextData,   \* payload of the next addToSyncQueue call
  rejected,   \* payloads whose addToSyncQueue promise rejected
  streak,     \* per payload: the invocations of syncFunction on it in this
              \* page session, while all of them resolved false; else Spoilt
  owed,       \* syncWhenOnline calls made offline whose pass has not started
  interrupted, \* the last reload came while an invocation was in its loop
  parts,      \* the durable entity object stores: per store, key -> value
  edb,        \* per entity object store: the requests in flight, in order
  waiting,    \* storeOffline/getOffline calls awaiting the init() they made
  got,        \* what the getOffline calls that have settled resolved with
  hook,       \* useOfflineSync of a mounted component: its React state
  api         \* services/api.ts and localStorage 'auth-storage': storage is
              \* the token stored there, cachedToken the module's cache,
              \* fresh = (Date.now() - tokenCacheTime < TOKEN_CACHE_DURATION),
              \* sent the Authorization token of the last request since
              \* storage was written, revoked the tokens of the sessions
              \* ended by logout

\* what the queue code never touches
aux == <<parts, edb, waiting, got, hook, api>>

vars == <<now, online, dbOpen, opens, idb, store, retries, syncQueue, pass,
          listeners, nextData, rejected, streak, owed, interrupted, aux>>

Spoilt == -1

\* the entity object stores init() creates beside syncQueue (keyPath 'id')
Partitions == {"transactions", "inventory", "customers", "products"}
Keys == {1}        \* ids of cached entities
Vals == {1, 2}     \* versions of a cached entity
Absent == 0        \* no record under the key
Tokens == 1..MaxOps \* the tokens of the login sessions
NoToken == 0       \* null: no token, no Authorization header
Unsent == -1       \* no request sent since 'auth-storage' was last written
Cached == -1       \* in opens: init() of a storeOffline or getOffline call
Getting == -1      \* by: loadSyncQueue of the init() of a getOffline call
Putting == -2      \* by: loadSyncQueue of the init() of a storeOffline call

\* no getOffline promise has settled yet
NoResult == [res |-> "none", value |-> <<>>, part |-> "", key |-> 0]

\* useOfflineSync before its component has rendered
Unmounted == [phase |-> "none", isOnline |-> FALSE, pendingSyncs |-> 0]

\* ---- helpers ------------------------------------------------------------
Range(s) == {s[k] : k \in 1..Len(s)}

Min(S) == CHOOSE x \in S : \A y \in S : x <= y

\* IndexedDB orders the string keys `${Date.now()}-${random}`: timestamps
\* have the same number of digits, so the timestamp decides, then the suffix.
KeyLess(a, b) == a.ts < b.ts \/ (a.ts = b.ts /\ a.rnd < b.rnd)

RECURSIVE SortByKey(_)
SortByKey(S) ==
  IF S = {} THEN <<>>
  ELSE LET m == CHOOSE r \in S : \A q \in S : q = r \/ KeyLess(r.id, q.id)
       IN <<m>> \o SortByKey(S \ {m})

\* store.getAll(): every record, in ascending key order
GetAll(S) == SortByKey(S)

\* getSyncQueue(): [...this.syncQueue], the same objects in a new array
getSyncQueue == syncQueue

\* the records getSyncQueue shows
Listed ==
  [k \in 1..Len(syncQueue) |->
     [id |-> syncQueue[k].id, data |-> syncQueue[k].data,
      retries |-> retries[syncQueue[k]]]]

IdleRow == [pc |-> "idle", queue |-> <<>>, i |-> 0, log |-> <<>>]

Idle(p) == pass[p].pc \in {"idle", "done"}

\* the objects a pass still holds: the items its loop has yet to finish
Held(row) ==
  IF row.pc \in {"submit", "remove"}
  THEN {row.queue[k] : k \in row.i..Len(row.queue)}
  ELSE {}

\* the objects reachable from this.syncQueue sq and the passes ps
Live(sq, ps) == Range(sq) \cup UNION {Held(ps[p]) : p \in Passes}

\* the heap f, kept for the reachable objects
Heap(f, sq, ps) == [h \in Live(sq, ps) |-> f[h]]

\* variant: a false result ends the loop (break)
NextItemBreak(row) ==
  IF row.log # <<>> /\ row.log[Len(row.log)].res = "false"
  THEN [row EXCEPT !.pc = "done"]
  ELSE IF row.i < Len(row.queue)
       THEN [row EXCEPT !.i = row.i + 1, !.pc = "submit"]
       ELSE [row EXCEPT !.pc = "done"]

\* the loop of syncWhenOnline moves to the next item of its snapshot, where
\* syncFunction is invoked, or ends
NextItem(row) ==
  IF row.i < Len(row.queue)
  THEN [row EXCEPT !.i = row.i + 1, !.pc = "submit"]
  ELSE [row EXCEPT !.pc = "done"]

RECURSIVE Sum(_, _)
Sum(f, S) ==
  IF S = {} THEN 0
  ELSE LET x == CHOOSE y \in S : TRUE IN f[x] + Sum(f, S \ {x})

\* room, within the bound, for one more failed attempt to be counted
CanFail == Sum(retries, DOMAIN retries) < MaxFails

Req(op, item, id, by) == [op |-> op, item |-> item, id |-> id, by |-> by]

\* ---- initial state: the module has been imported ------------------------
Init ==
  /\ now = 1
  /\ online = TRUE
  /\ dbOpen = FALSE
  /\ opens = <<0>>
  /\ idb = <<>>
  /\ store = {}
  /\ retries = <<>>
  /\ syncQueue = <<>>
  /\ pass = [p \in Passes |-> IdleRow]
  /\ listeners = 0
  /\ nextData = 1
  /\ rejected = {}
  /\ streak = [d \in Ops |-> 0]
  /\ owed = 0
  /\ interrupted = FALSE
  /\ parts = [n \in Partitions |-> [k \in Keys |-> Absent]]
  /\ edb = [n \in Partitions |-> <<>>]
  /\ waiting = <<>>
  /\ got = NoResult
  /\ hook = Unmounted
  /\ api = [storage |-> NoToken, cachedToken |-> NoToken, fresh |-> FALSE,
            sent |-> Unsent, revoked |-> {}]

\* ---- environment --------------------------------------------------------
Tick ==
  /\ now < MaxTime
  /\ now' = now + 1
  /\ UNCHANGED <<online, dbOpen, opens, idb, store, retries, syncQueue, pass,
                 listeners, nextData, rejected, streak>>
  /\ UNCHANGED <<owed, interrupted, aux>>

\* ---- init() and loadSyncQueue() -----------------------------------------
\* the item addToSyncQueue builds once the database is there
NewItem(rnd, d) == [id |-> [ts |-> now, rnd |-> rnd], data |-> d, retries |-> 0]

\* request.onsuccess of indexedDB.open: this.db is set, loadSyncQueue places
\* its getAll, the promise resolves; an addToSyncQueue call awaiting this
\* init() continues and places its add
OpenSuccess ==
  /\ opens # <<>>
  /\ Head(opens) # Cached
  /\ LET d == Head(opens) IN
       IF d = 0
       THEN /\ Len(idb) < MaxIdb
            /\ idb' = Append(idb, Req("getAll", NoItem, NoId, 0))
       ELSE /\ Len(idb) + 1 < MaxIdb
            /\ \E rnd \in Rnds :
                 idb' = idb \o <<Req("getAll", NoItem, NoId, 0),
                                 Req("add", NewItem(rnd, d), NoId, 0)>>
  /\ opens' = Tail(opens)
  /\ dbOpen' = TRUE
  /\ UNCHANGED <<now, online, store, retries, syncQueue, pass, listeners,
                 nextData, rejected, streak>>
  /\ UNCHANGED <<owed, interrupted, aux>>

\* request.onerror of indexedDB.open: init() rejects, and with it the
\* addToSyncQueue call that awaited it
OpenError ==
  /\ opens # <<>>
  /\ Head(opens) # Cached
  /\ opens' = Tail(opens)
  /\ rejected' = IF Head(opens) = 0 THEN rejected
                 ELSE rejected \cup {Head(opens)}
  /\ UNCHANGED <<now, online, dbOpen, idb, store, retries, syncQueue, pass,
                 listeners, nextData, streak>>
  /\ UNCHANGED <<owed, interrupted, aux>>

\* the object made from record r of a getAll result: a new object, so its
\* handle differs from those of the objects the passes still hold
Loaded(r) ==
  LET held == UNION {Held(pass[p]) : p \in Passes}
      h(n) == [id |-> r.id, data |-> r.data, inc |-> n]
  IN h(Min({n \in 1..(Cardinality(Passes) + 1) : h(n) \notin held}))

\* request.onsuccess of loadSyncQueue's getAll: this.syncQueue = result
LoadSuccess ==
  /\ idb # <<>>
  /\ Head(idb).op = "getAll"
  /\ LET result == GetAll(store)
         queue == [k \in 1..Len(result) |-> Loaded(result[k])]
         fresh == [h \in Range(queue) |->
                     (CHOOSE r \in store : r.id = h.id).retries]
     IN /\ syncQueue' = queue
        /\ retries' = Heap([h \in DOMAIN retries \cup Range(queue) |->
                              IF h \in Range(queue) THEN fresh[h]
                              ELSE retries[h]],
                           queue, pass)
  /\ idb' = Tail(idb)
  /\ UNCHANGED <<now, online, dbOpen, opens, store, pass, listeners,
                 nextData, rejected, streak>>
  /\ UNCHANGED <<owed, interrupted, aux>>

\* ---- addToSyncQueue -----------------------------------------------------
\* the call: with this.db set it builds the item and places store.add;
\* without, it calls init() and awaits it
AddToSyncQueue ==
  /\ nextData <= MaxOps
  /\ nextData' = nextData + 1
  /\ IF dbOpen
     THEN /\ Len(idb) < MaxIdb
          /\ \E rnd \in Rnds :
               idb' = Append(idb, Req("add", NewItem(rnd, nextData), NoId, 0))
          /\ opens' = opens
     ELSE /\ opens' = Append(opens, nextData)
          /\ idb' = idb
  /\ UNCHANGED <<now, online, dbOpen, store, retries, syncQueue, pass,
                 listeners, rejected, streak>>
  /\ UNCHANGED <<owed, interrupted, aux>>

\* the object addToSyncQueue built from item
Built(item) == [id |-> item.id, data |-> item.data, inc |-> 0]

\* variant: the item is put at the front (unshift)
PushFront(sq, h) == <<h>> \o sq

\* this.syncQueue.push(syncItem)
Push(sq, h) == Append(sq, h)

\* variant: add behaves as put, any key is accepted
KeyFreeAlways(S, id) == TRUE

\* store.add accepts a record only under a key (keyPath 'id') not in use
KeyFree(S, id) == \A r \in S : r.id # id

\* variant: getSyncQueue returns this.syncQueue itself, so the push shows in
\* the array a running pass iterates
AddSuccessAliased ==
  /\ idb # <<>>
  /\ Head(idb).op = "add"
  /\ LET item == Head(idb).item IN
       /\ KeyFree(store, item.id)
       /\ store' = store \cup {item}
       /\ syncQueue' = Push(syncQueue, Built(item))
       /\ pass' = [p \in Passes |->
                     IF pass[p].pc \in {"submit", "remove"}
                     THEN [pass[p] EXCEPT !.queue = Push(@, Built(item))]
                     ELSE pass[p]]
       /\ retries' = [h \in DOMAIN retries \cup {Built(item)} |->
                        IF h = Built(item) THEN item.retries ELSE retries[h]]
  /\ idb' = Tail(idb)
  /\ UNCHANGED <<now, online, dbOpen, opens, listeners, nextData,
                 rejected, streak>>
  /\ UNCHANGED <<owed, interrupted, aux>>

\* request.onsuccess of store.add: the item is pushed, the promise resolves
AddSuccess ==
  /\ idb # <<>>
  /\ Head(idb).op = "add"
  /\ LET item == Head(idb).item IN
       /\ KeyFree(store, item.id)
       /\ store' = store \cup {item}
       /\ syncQueue' = Push(syncQueue, Built(item))
       /\ retries' = [h \in DOMAIN retries \cup {Built(item)} |->
                        IF h = Built(item) THEN item.retries ELSE retries[h]]
  /\ idb' = Tail(idb)
  /\ UNCHANGED <<now, online, dbOpen, opens, pass, listeners, nextData,
                 rejected, streak>>
  /\ UNCHANGED <<owed, interrupted, aux>>

\* variant: the error handler pushes the item as the success handler does
AddErrorPushes ==
  /\ idb # <<>>
  /\ Head(idb).op = "add"
  /\ rejected' = rejected \cup {Head(idb).item.data}
  /\ syncQueue' = Append(syncQueue, [id |-> Head(idb).item.id,
                                     data |-> Head(idb).item.data, inc |-> 0])
  /\ retries' = [h \in DOMAIN retries \cup {syncQueue'[Len(syncQueue')]} |->
                   IF h \in DOMAIN retries THEN retries[h] ELSE 0]
  /\ idb' = Tail(idb)
  /\ UNCHANGED <<now, online, dbOpen, opens, store, pass, listeners,
                 nextData, streak>>
  /\ UNCHANGED <<owed, interrupted, aux>>

\* request.onerror of store.add (the key exists, or the write fails): the
\* promise rejects
AddError ==
  /\ idb # <<>>
  /\ Head(idb).op = "add"
  /\ rejected' = rejected \cup {Head(idb).item.data}
  /\ idb' = Tail(idb)
  /\ UNCHANGED <<now, online, dbOpen, opens, store, retries, syncQueue, pass,
                 listeners, nextData, streak>>
  /\ UNCHANGED <<owed, interrupted, aux>>

\* ---- removeFromSyncQueue ------------------------------------------------
\* the call, made by the application: places store.delete(id)
RemoveFromSyncQueue ==
  /\ dbOpen
  /\ Len(idb) < MaxIdb
  /\ \E id \in Ids : idb' = Append(idb, Req("delete", NoItem, id, 0))
  /\ UNCHANGED <<now, online, dbOpen, opens, store, retries, syncQueue, pass,
                 listeners, nextData, rejected, streak>>
  /\ UNCHANGED <<owed, interrupted, aux>>

\* the last entry of a pass's log gets the outcome of its delete
Deleted(row, how) ==
  [row EXCEPT !.log = [row.log EXCEPT ![Len(row.log)].del = how]]

\* variant: the test of the filter is inverted (item.id === id)
FilterInverted(sq, id) == SelectSeq(sq, LAMBDA h : h.id = id)

\* this.syncQueue.filter(item => item.id !== id)
Filter(sq, id) == SelectSeq(sq, LAMBDA h : h.id # id)

\* variant: store.delete fails on a key that no record has
AnyKeyIfPresent(S, id) == \E r \in S : r.id = id

\* store.delete(id) succeeds whether or not a record has the key
AnyKey(S, id) == TRUE

\* variant: removing an operation also clears the cached transactions
DeleteSuccessCascade ==
  /\ idb # <<>>
  /\ Head(idb).op = "delete"
  /\ AnyKey(store, Head(idb).id)
  /\ LET id == Head(idb).id
         by == Head(idb).by
     IN /\ store' = {r \in store : r.id # id}
        /\ syncQueue' = Filter(syncQueue, id)
        /\ pass' = IF by = 0 THEN pass
                   ELSE [pass EXCEPT ![by] = NextItem(Deleted(pass[by], "ok"))]
  /\ retries' = Heap(retries, syncQueue', pass')
  /\ idb' = Tail(idb)
  /\ UNCHANGED <<now, online, dbOpen, opens, listeners, nextData, rejected>>
  /\ streak' = [d \in Ops |->
                  IF \E h \in Range(syncQueue) :
                       h.data = d /\ h.id = Head(idb).id
                  THEN 0 ELSE streak[d]]
  /\ parts' = [parts EXCEPT !["transactions"] = [k \in Keys |-> Absent]]
  /\ UNCHANGED <<owed, interrupted, edb, waiting, got, hook, api>>

\* request.onsuccess of store.delete: the items with this id are filtered
\* out of this.syncQueue, the promise resolves; a pass awaiting it goes on
DeleteSuccess ==
  /\ idb # <<>>
  /\ Head(idb).op = "delete"
  /\ AnyKey(store, Head(idb).id)
  /\ LET id == Head(idb).id
         by == Head(idb).by
     IN /\ store' = {r \in store : r.id # id}
        /\ syncQueue' = Filter(syncQueue, id)
        /\ pass' = IF by = 0 THEN pass
                   ELSE [pass EXCEPT ![by] = NextItem(Deleted(pass[by], "ok"))]
  /\ retries' = Heap(retries, syncQueue', pass')
  /\ idb' = Tail(idb)
  /\ UNCHANGED <<now, online, dbOpen, opens, listeners, nextData, rejected>>
  /\ streak' = [d \in Ops |->
                  IF \E h \in Range(syncQueue) :
                       h.data = d /\ h.id = Head(idb).id
                  THEN 0 ELSE streak[d]]
  /\ UNCHANGED <<owed, interrupted, aux>>

\* variant: no catch block, the rejection of the delete ends the pass
DeleteErrorPropagates ==
  /\ idb # <<>>
  /\ Head(idb).op = "delete"
  /\ LET by == Head(idb).by IN
       IF by = 0
       THEN UNCHANGED <<retries, pass, streak>>
       ELSE /\ pass' = [pass EXCEPT ![by] = [Deleted(pass[by], "failed")
                                               EXCEPT !.pc = "done"]]
            /\ retries' = Heap(retries, syncQueue, pass')
            /\ streak' = streak
  /\ idb' = Tail(idb)
  /\ UNCHANGED <<now, online, dbOpen, opens, store, syncQueue, listeners,
                 nextData, rejected>>
  /\ UNCHANGED <<owed, interrupted, aux>>

\* request.onerror of store.delete: the promise rejects; in a pass the
\* catch block counts a retry on the item and the loop goes on
DeleteError ==
  /\ idb # <<>>
  /\ Head(idb).op = "delete"
  /\ LET by == Head(idb).by IN
       IF by = 0
       THEN UNCHANGED <<retries, pass, streak>>
       ELSE LET h == pass[by].queue[pass[by].i] IN
              /\ CanFail
              /\ pass' = [pass EXCEPT
                            ![by] = NextItem(Deleted(pass[by], "failed"))]
              /\ retries' = Heap([retries EXCEPT ![h] = @ + 1],
                                 syncQueue, pass')
              /\ streak' = [streak EXCEPT ![h.data] = Spoilt]
  /\ idb' = Tail(idb)
  /\ UNCHANGED <<now, online, dbOpen, opens, store, syncQueue, listeners,
                 nextData, rejected>>
  /\ UNCHANGED <<owed, interrupted, aux>>

\* ---- syncWhenOnline -----------------------------------------------------
\* variant: the loop goes over the snapshot twice
StartedTwice(queue) ==
  IF Len(queue) = 0
  THEN [pc |-> "done", queue |-> queue, i |-> 0, log |-> <<>>]
  ELSE [pc |-> "submit", queue |-> queue \o queue, i |-> 1, log |-> <<>>]

\* the row of a pass that has taken its snapshot: empty, it returns;
\* otherwise syncFunction is invoked on the first item
Started(queue) ==
  IF Len(queue) = 0
  THEN [pc |-> "done", queue |-> queue, i |-> 0, log |-> <<>>]
  ELSE [pc |-> "submit", queue |-> queue, i |-> 1, log |-> <<>>]

\* variant: a call made while another invocation is in its loop returns at
\* once (a replay in progress flag)
SyncWhenOnlineGuarded(p) ==
  /\ Idle(p)
  /\ IF ~online
     THEN /\ listeners < Cardinality(Passes)
          /\ listeners' = listeners + 1
          /\ pass' = pass
     ELSE /\ pass' = [pass EXCEPT
                        ![p] = IF \E q \in Passes : ~Idle(q)
                               THEN Started(<<>>)
                               ELSE Started(getSyncQueue)]
          /\ listeners' = listeners
  /\ owed' = IF online THEN owed ELSE owed + 1
  /\ UNCHANGED <<now, online, dbOpen, opens, idb, store, retries, syncQueue,
                 nextData, rejected, streak>>
  /\ UNCHANGED <<interrupted, aux>>

\* the call, made by the application: offline it registers a listener and
\* returns; online it takes the snapshot and starts the loop
SyncWhenOnline(p) ==
  /\ Idle(p)
  /\ IF ~online
     THEN /\ listeners < Cardinality(Passes)
          /\ listeners' = listeners + 1
          /\ pass' = pass
     ELSE /\ pass' = [pass EXCEPT ![p] = Started(getSyncQueue)]
          /\ listeners' = listeners
  /\ owed' = IF online THEN owed ELSE owed + 1
  /\ UNCHANGED <<now, online, dbOpen, opens, idb, store, retries, syncQueue,
                 nextData, rejected, streak>>
  /\ UNCHANGED <<interrupted, aux>>

\* what a call of syncFunction(item) is recorded as: the payload and the
\* retries of the item it was given, its result, and what became of the
\* delete the loop awaited after it
Entry(h, res) ==
  [data |-> h.data, seen |-> retries[h], res |-> res, del |-> "none"]

\* this.removeFromSyncQueue(item.id) inside the loop: without this.db it
\* returns at once, otherwise the pass awaits the delete it places
Removing(p, row, id) ==
  IF dbOpen
  THEN /\ Len(idb) < MaxIdb
       /\ idb' = Append(idb, Req("delete", NoItem, id, p))
       /\ pass' = [pass EXCEPT ![p] = [row EXCEPT !.pc = "remove"]]
  ELSE /\ idb' = idb
       /\ pass' = [pass EXCEPT ![p] = NextItem(row)]

\* syncFunction(item) resolves true
SubmitTrue(p) ==
  /\ pass[p].pc = "submit"
  /\ LET h == pass[p].queue[pass[p].i]
         row == [pass[p] EXCEPT !.log = Append(@, Entry(h, "true"))]
     IN Removing(p, row, h.id)
  /\ retries' = Heap(retries, syncQueue, pass')
  /\ UNCHANGED <<now, online, dbOpen, opens, store, syncQueue, listeners,
                 nextData, rejected>>
  /\ streak' = [streak EXCEPT ![pass[p].queue[pass[p].i].data] = Spoilt]
  /\ UNCHANGED <<owed, interrupted, aux>>

\* variant: the comparison is off by one (item.retries >= 5)
ExceededEarly(n) == n >= RetryCeiling

\* item.retries > 5
Exceeded(n) == n > RetryCeiling

\* syncFunction(item) resolves false: item.retries++, and past the ceiling
\* the item is removed
SubmitFalse(p) ==
  /\ pass[p].pc = "submit"
  /\ LET h == pass[p].queue[pass[p].i]
         row == [pass[p] EXCEPT !.log = Append(@, Entry(h, "false"))]
     IN /\ CanFail
        /\ IF Exceeded(retries[h] + 1)
           THEN Removing(p, row, h.id)
           ELSE /\ pass' = [pass EXCEPT ![p] = NextItem(row)]
                /\ idb' = idb
        /\ retries' = Heap([retries EXCEPT ![h] = @ + 1], syncQueue, pass')
  /\ UNCHANGED <<now, online, dbOpen, opens, store, syncQueue, listeners,
                 nextData, rejected>>
  /\ streak' = [streak EXCEPT ![pass[p].queue[pass[p].i].data] =
                           IF @ = Spoilt THEN Spoilt ELSE @ + 1]
  /\ UNCHANGED <<owed, interrupted, aux>>

\* syncFunction(item) throws or rejects: the catch block does item.retries++
SubmitThrow(p) ==
  /\ pass[p].pc = "submit"
  /\ LET h == pass[p].queue[pass[p].i]
         row == [pass[p] EXCEPT !.log = Append(@, Entry(h, "throw"))]
     IN /\ CanFail
        /\ pass' = [pass EXCEPT ![p] = NextItem(row)]
        /\ retries' = Heap([retries EXCEPT ![h] = @ + 1], syncQueue, pass')
  /\ UNCHANGED <<now, online, dbOpen, opens, idb, store, syncQueue,
                 listeners, nextData, rejected>>
  /\ streak' = [streak EXCEPT ![pass[p].queue[pass[p].i].data] = Spoilt]
  /\ UNCHANGED <<owed, interrupted, aux>>

\* ---- the caller --------------------------------------------------------
\* the application takes the outcome of the calls that have settled: the
\* frame of a syncWhenOnline call that returned is gone, a rejection of
\* addToSyncQueue has been caught
Acknowledge ==
  /\ rejected # {} \/ \E p \in Passes : pass[p].pc = "done"
  /\ rejected' = {}
  /\ pass' = [p \in Passes |->
                IF pass[p].pc = "done" THEN IdleRow ELSE pass[p]]
  /\ UNCHANGED <<now, online, dbOpen, opens, idb, store, retries, syncQueue,
                 listeners, nextData, streak>>
  /\ UNCHANGED <<owed, interrupted, aux>>

\* ---- connectivity and page life cycle -----------------------------------
\* the handlers useOfflineSync has registered: setIsOnline(b)
Notified(h, b) == IF h.phase = "listening" THEN [h EXCEPT !.isOnline = b] ELSE h

\* the 'offline' event
GoOffline ==
  /\ online
  /\ online' = FALSE
  /\ hook' = Notified(hook, FALSE)
  /\ UNCHANGED <<now, dbOpen, opens, idb, store, retries, syncQueue, pass,
                 listeners, nextData, rejected, streak>>
  /\ UNCHANGED <<owed, interrupted, parts, edb, waiting, got, api>>

\* the 'online' event: every listener registered by syncWhenOnline calls
\* syncWhenOnline again, one after the other, each up to its first await
GoOnline ==
  /\ ~online
  /\ online' = TRUE
  /\ LET free == {p \in Passes : Idle(p)}
         used == {p \in free : Cardinality({q \in free : q < p}) < listeners}
     IN /\ listeners <= Cardinality(free)
        /\ pass' = [p \in Passes |->
                      IF p \in used THEN Started(getSyncQueue) ELSE pass[p]]
  /\ owed' = 0
  /\ hook' = Notified(hook, TRUE)
  /\ UNCHANGED <<now, dbOpen, opens, idb, store, retries, syncQueue,
                 listeners, nextData, rejected, streak>>
  /\ UNCHANGED <<interrupted, parts, edb, waiting, got, api>>

\* what a request does to the object store when it is carried out
Applied(S, req) ==
  IF req.op = "add" /\ KeyFree(S, req.item.id) THEN S \cup {req.item}
  ELSE IF req.op = "delete" THEN {r \in S : r.id # req.id}
  ELSE IF req.op = "put" THEN {r \in S : r.id # req.item.id} \cup {req.item}
  ELSE S

RECURSIVE ApplyAll(_, _)
ApplyAll(S, reqs) ==
  IF reqs = <<>> THEN S ELSE ApplyAll(Applied(S, Head(reqs)), Tail(reqs))

\* what a request does to an entity object store P when it is carried out:
\* put writes the record under its key, whether or not the key is in use
Stored(P, req) ==
  IF req.op = "put" THEN [P EXCEPT ![req.key] = req.val] ELSE P

RECURSIVE StoreAll(_, _)
StoreAll(P, reqs) ==
  IF reqs = <<>> THEN P ELSE StoreAll(Stored(P, Head(reqs)), Tail(reqs))

\* variant: the queue does not outlive the page (kept in memory only)
ReloadVolatile ==
  /\ store' = {}
  /\ dbOpen' = FALSE
  /\ opens' = <<0>>
  /\ idb' = <<>>
  /\ retries' = <<>>
  /\ syncQueue' = <<>>
  /\ pass' = [p \in Passes |-> IdleRow]
  /\ listeners' = 0
  /\ rejected' = {}
  /\ streak' = [d \in Ops |-> 0]
  /\ owed' = 0
  /\ interrupted' = \E p \in Passes : ~Idle(p)
  /\ \E f \in [Partitions -> 0..MaxIdb] :
       /\ \A n \in Partitions : f[n] <= Len(edb[n])
       /\ parts' = [n \in Partitions |->
                      StoreAll(parts[n], SubSeq(edb[n], 1, f[n]))]
  /\ edb' = [n \in Partitions |-> <<>>]
  /\ waiting' = <<>>
  /\ got' = NoResult
  /\ hook' = Unmounted
  /\ api' = [api EXCEPT !.cachedToken = NoToken, !.fresh = FALSE]
  /\ UNCHANGED <<now, online, nextData>>

\* the page is reloaded: the object store stays, with some of the requests
\* in flight carried out; the module is imported again
Reload ==
  /\ \E k \in 0..Len(idb) : store' = ApplyAll(store, SubSeq(idb, 1, k))
  /\ dbOpen' = FALSE
  /\ opens' = <<0>>
  /\ idb' = <<>>
  /\ retries' = <<>>
  /\ syncQueue' = <<>>
  /\ pass' = [p \in Passes |-> IdleRow]
  /\ listeners' = 0
  /\ rejected' = {}
  /\ streak' = [d \in Ops |-> 0]
  /\ owed' = 0
  /\ interrupted' = \E p \in Passes : ~Idle(p)
  /\ \E f \in [Partitions -> 0..MaxIdb] :
       /\ \A n \in Partitions : f[n] <= Len(edb[n])
       /\ parts' = [n \in Partitions |->
                      StoreAll(parts[n], SubSeq(edb[n], 1, f[n]))]
  /\ edb' = [n \in Partitions |-> <<>>]
  /\ waiting' = <<>>
  /\ got' = NoResult
  /\ hook' = Unmounted
  /\ api' = [api EXCEPT !.cachedToken = NoToken, !.fresh = FALSE]
  /\ UNCHANGED <<now, online, nextData>>

Next ==
  \/ Tick
  \/ OpenSuccess
  \/ OpenError
  \/ LoadSuccess
  \/ AddToSyncQueue
  \/ AddSuccess
  \/ AddError
  \/ RemoveFromSyncQueue
  \/ DeleteSuccess
  \/ DeleteError
  \/ \E p \in Passes : SyncWhenOnline(p)
  \/ \E p \in Passes : SubmitTrue(p)
  \/ \E p \in Passes : SubmitFalse(p)
  \/ \E p \in Passes : SubmitThrow(p)
  \/ Acknowledge
  \/ GoOffline
  \/ GoOnline
  \/ Reload

Spec == Init /\ [][Next]_vars

\* ---- storeOffline and getOffline -----------------------------------------
\* a call: op "put" is storeOffline(part, data), op "get" is
\* getOffline(part, id); on an entity store data is the record (key, val)
\* and key 0 is the missing id; on 'syncQueue' data is item and the id is id
Call(op, part, key, val, item, id) ==
  [op |-> op, part |-> part, key |-> key, val |-> val, item |-> item, id |-> id]

\* the entity stores the calls name
Named == {"transactions", "products"}

\* the calls made: an entity store with every key and version, and the
\* store 'syncQueue' with a record shaped like a queue item and with its key
Calls ==
  {Call("put", n, k, v, NoItem, NoId) : n \in Named, k \in Keys, v \in Vals}
    \cup {Call("get", n, k, Absent, NoItem, NoId) :
            n \in Named, k \in Keys \cup {0}}
    \cup {Call("put", "syncQueue", 0, Absent, NewItem(rnd, 1), NoId) :
            rnd \in Rnds}
    \cup {Call("get", "syncQueue", 0, Absent, NoItem, id) :
            id \in {NoId, [ts |-> now, rnd |-> Min(Rnds)]}}

\* the requests in flight on the entity stores
EntityLoad == Sum([n \in Partitions |-> Len(edb[n])], Partitions)

\* this.db.transaction([storeName], ...) and the request of the call c,
\* placed behind the requests q on 'syncQueue' ...
PlacedQueue(q, c) ==
  IF c.part = "syncQueue" THEN Append(q, Req(c.op, c.item, c.id, 0)) ELSE q

\* ... or behind the requests e on the entity store it names
PlacedEntity(e, c) ==
  IF c.part = "syncQueue" THEN e ELSE [e EXCEPT ![c.part] = Append(@, c)]

\* the call storeOffline(storeName, data) or getOffline(storeName, id): with
\* this.db set it places its request; without, it calls init() and awaits it
CacheCall(c) ==
  /\ IF dbOpen
     THEN /\ Len(idb) + EntityLoad < MaxIdb
          /\ idb' = PlacedQueue(idb, c)
          /\ edb' = PlacedEntity(edb, c)
          /\ UNCHANGED <<opens, waiting>>
     ELSE /\ Len(opens) < MaxIdb
          /\ opens' = Append(opens, Cached)
          /\ waiting' = Append(waiting, c)
          /\ UNCHANGED <<idb, edb>>
  /\ UNCHANGED <<now, online, dbOpen, store, retries, syncQueue, pass,
                 listeners, nextData, rejected, streak>>
  /\ UNCHANGED <<owed, interrupted, parts, got, hook, api>>

\* no storeOffline or getOffline call is waiting or has a request in flight
Settled ==
  /\ waiting = <<>>
  /\ EntityLoad = 0
  /\ \A k \in 1..Len(idb) : idb[k].op \notin {"put", "get"}

\* the application awaits each of these calls before it makes the next one
StoreOffline == \E c \in Calls : c.op = "put" /\ Settled /\ CacheCall(c)

GetOffline == \E c \in Calls : c.op = "get" /\ Settled /\ CacheCall(c)

\* request.onsuccess of the indexedDB.open of a storeOffline or getOffline
\* call: this.db is set, loadSyncQueue places its getAll, the call continues
\* and places its own request
OpenSuccessCached ==
  /\ opens # <<>>
  /\ Head(opens) = Cached
  /\ Len(idb) + EntityLoad + 1 < MaxIdb
  /\ LET c == Head(waiting) IN
       /\ idb' = PlacedQueue(Append(idb, Req("getAll", NoItem, NoId,
                                              IF c.op = "get" THEN Getting
                                              ELSE Putting)), c)
       /\ edb' = PlacedEntity(edb, c)
  /\ opens' = Tail(opens)
  /\ waiting' = Tail(waiting)
  /\ dbOpen' = TRUE
  /\ UNCHANGED <<now, online, store, retries, syncQueue, pass, listeners,
                 nextData, rejected, streak>>
  /\ UNCHANGED <<owed, interrupted, parts, got, hook, api>>

\* the promise of getOffline(part, key) resolved with value
Resolved(part, key, value) ==
  [res |-> "resolved", value |-> value, part |-> part, key |-> key]

\* the promise of getOffline(part, key) rejected
Rejected(part, key) ==
  [res |-> "rejected", value |-> <<>>, part |-> part, key |-> key]

\* request.onerror of that open: init() rejects and with it the call
OpenErrorCached ==
  /\ opens # <<>>
  /\ Head(opens) = Cached
  /\ opens' = Tail(opens)
  /\ waiting' = Tail(waiting)
  /\ got' = IF Head(waiting).op = "get"
            THEN Rejected(Head(waiting).part, Head(waiting).key)
            ELSE got
  /\ UNCHANGED <<now, online, dbOpen, idb, store, retries, syncQueue, pass,
                 listeners, nextData, rejected, streak>>
  /\ UNCHANGED <<owed, interrupted, parts, edb, hook, api>>

\* request.onsuccess of objectStore.put(data) on an entity store
PutSuccess(n) ==
  /\ edb[n] # <<>>
  /\ Head(edb[n]).op = "put"
  /\ parts' = [parts EXCEPT ![n] = Stored(@, Head(edb[n]))]
  /\ edb' = [edb EXCEPT ![n] = Tail(@)]
  /\ UNCHANGED <<now, online, dbOpen, opens, idb, store, retries, syncQueue,
                 pass, listeners, nextData, rejected, streak>>
  /\ UNCHANGED <<owed, interrupted, waiting, got, hook, api>>

\* request.result of store.get(id) and store.getAll() on the entity store
\* P: the record under the key, none (undefined) when the key has no record;
\* with no id every record, in key order
Result(P, key) ==
  LET found == {k \in Keys : P[k] # Absent}
      rec(k) == [id |-> k, val |-> P[k]]
      RECURSIVE InOrder(_)
      InOrder(K) == IF K = {} THEN <<>>
                    ELSE <<rec(Min(K))>> \o InOrder(K \ {Min(K)})
  IN IF key = 0 THEN InOrder(found)
     ELSE IF key \in found THEN <<rec(key)>> ELSE <<>>

\* variant: a get of a key that has no record rejects (not found)
GetSuccessStrict(n) ==
  /\ edb[n] # <<>>
  /\ Head(edb[n]).op = "get"
  /\ got' = IF Head(edb[n]).key # 0 /\ Result(parts[n], Head(edb[n]).key) = <<>>
            THEN Rejected(n, Head(edb[n]).key)
            ELSE Resolved(n, Head(edb[n]).key,
                          Result(parts[n], Head(edb[n]).key))
  /\ edb' = [edb EXCEPT ![n] = Tail(@)]
  /\ UNCHANGED <<now, online, dbOpen, opens, idb, store, retries, syncQueue,
                 pass, listeners, nextData, rejected, streak>>
  /\ UNCHANGED <<owed, interrupted, parts, waiting, hook, api>>

\* request.onsuccess of that get or getAll: resolve(request.result)
GetSuccess(n) ==
  /\ edb[n] # <<>>
  /\ Head(edb[n]).op = "get"
  /\ got' = Resolved(n, Head(edb[n]).key,
                     Result(parts[n], Head(edb[n]).key))
  /\ edb' = [edb EXCEPT ![n] = Tail(@)]
  /\ UNCHANGED <<now, online, dbOpen, opens, idb, store, retries, syncQueue,
                 pass, listeners, nextData, rejected, streak>>
  /\ UNCHANGED <<owed, interrupted, parts, waiting, hook, api>>

\* request.onsuccess of objectStore.put(data) on 'syncQueue': the record is
\* written under its id; this.syncQueue is not touched
PutQueueSuccess ==
  /\ idb # <<>>
  /\ Head(idb).op = "put"
  /\ store' = Applied(store, Head(idb))
  /\ idb' = Tail(idb)
  /\ UNCHANGED <<now, online, dbOpen, opens, retries, syncQueue, pass,
                 listeners, nextData, rejected, streak>>
  /\ UNCHANGED <<owed, interrupted, aux>>

\* request.onsuccess of store.get(id) or store.getAll() on 'syncQueue'
GetQueueSuccess ==
  /\ idb # <<>>
  /\ Head(idb).op = "get"
  /\ got' = Resolved("syncQueue", 0,
                     IF Head(idb).id = NoId THEN GetAll(store)
                     ELSE GetAll({r \in store : r.id = Head(idb).id}))
  /\ idb' = Tail(idb)
  /\ UNCHANGED <<now, online, dbOpen, opens, store, retries, syncQueue, pass,
                 listeners, nextData, rejected, streak>>
  /\ UNCHANGED <<owed, interrupted, parts, edb, waiting, hook, api>>

\* ---- useOfflineSync and OfflineIndicator ----------------------------------
\* the component renders for the first time: useState(navigator.onLine),
\* useState(0)
Render ==
  /\ hook.phase = "none"
  /\ hook' = [phase |-> "rendered", isOnline |-> online, pendingSyncs |-> 0]
  /\ UNCHANGED <<now, online, dbOpen, opens, idb, store, retries, syncQueue,
                 pass, listeners, nextData, rejected, streak>>
  /\ UNCHANGED <<owed, interrupted, parts, edb, waiting, got, api>>

\* the effect runs: the handlers are registered, the interval is set and
\* updatePendingSyncs is called once
Effect ==
  /\ hook.phase = "rendered"
  /\ hook' = [hook EXCEPT !.phase = "listening",
                          !.pendingSyncs = Len(getSyncQueue)]
  /\ UNCHANGED <<now, online, dbOpen, opens, idb, store, retries, syncQueue,
                 pass, listeners, nextData, rejected, streak>>
  /\ UNCHANGED <<owed, interrupted, parts, edb, waiting, got, api>>

\* variant: the interval callback sets the count it captured at mount
PollStale ==
  /\ hook.phase = "listening"
  /\ hook' = [hook EXCEPT !.pendingSyncs = hook.pendingSyncs]
  /\ UNCHANGED <<now, online, dbOpen, opens, idb, store, retries, syncQueue,
                 pass, listeners, nextData, rejected, streak>>
  /\ UNCHANGED <<owed, interrupted, parts, edb, waiting, got, api>>

\* the interval fires: setPendingSyncs(offlineSync.getSyncQueue().length)
Poll ==
  /\ hook.phase = "listening"
  /\ hook' = [hook EXCEPT !.pendingSyncs = Len(getSyncQueue)]
  /\ UNCHANGED <<now, online, dbOpen, opens, idb, store, retries, syncQueue,
                 pass, listeners, nextData, rejected, streak>>
  /\ UNCHANGED <<owed, interrupted, parts, edb, waiting, got, api>>

\* the component unmounts: the cleanup removes the handlers and the interval
Unmount ==
  /\ hook.phase # "none"
  /\ hook' = Unmounted
  /\ UNCHANGED <<now, online, dbOpen, opens, idb, store, retries, syncQueue,
                 pass, listeners, nextData, rejected, streak>>
  /\ UNCHANGED <<owed, interrupted, parts, edb, waiting, got, api>>

\* what OfflineIndicator returns for the state h of the hook
Indicator(h) ==
  IF h.isOnline /\ h.pendingSyncs = 0 THEN "null"
  ELSE IF ~h.isOnline THEN "offline"
  ELSE IF h.pendingSyncs > 0 THEN "syncing"
  ELSE "empty"

\* ---- the api client and the auth store -----------------------------------
\* what the queue and the hook do not touch in a step of the api client
ApiFrame ==
  /\ UNCHANGED <<now, online, dbOpen, opens, idb, store, retries, syncQueue,
                 pass, listeners, nextData, rejected, streak>>
  /\ UNCHANGED <<owed, interrupted, parts, edb, waiting, got, hook>>

\* useAuthStore.setAuth(user, token) after a login: setStoredAuth writes
\* 'auth-storage'; the server issues a token it has not issued before
SetAuth ==
  /\ \E t \in Tokens \ (api.revoked \cup {api.storage}) :
       api' = [api EXCEPT !.storage = t, !.sent = Unsent]
  /\ ApiFrame

\* useAuthStore.logout(), called by Layout's handleLogout before
\* navigate('/login'): clearStoredAuth removes 'auth-storage'
Logout ==
  /\ api.storage # NoToken
  /\ api' = [api EXCEPT !.storage = NoToken, !.sent = Unsent,
                        !.revoked = @ \cup {api.storage}]
  /\ ApiFrame

\* TOKEN_CACHE_DURATION has passed since tokenCacheTime
Expire ==
  /\ api.fresh
  /\ api' = [api EXCEPT !.fresh = FALSE]
  /\ ApiFrame

\* getAuthToken(): the cached token while it is fresh, else the token of
\* 'auth-storage', which is cached, else null and the cache is cleared
getAuthToken(a) ==
  IF a.cachedToken # NoToken /\ a.fresh THEN a
  ELSE IF a.storage # NoToken
       THEN [a EXCEPT !.cachedToken = a.storage, !.fresh = TRUE]
       ELSE [a EXCEPT !.cachedToken = NoToken, !.fresh = FALSE]

\* a request goes through the request interceptor: Authorization is set to
\* the token getAuthToken returns, if any
Request ==
  /\ api' = [getAuthToken(api) EXCEPT !.sent = getAuthToken(api).cachedToken]
  /\ ApiFrame

\* the response interceptor gets a 401: clearTokenCache(), and away from
\* /login and /register 'auth-storage' is removed and the page is sent to
\* /login (the page load that follows is a reload)
Unauthorized ==
  /\ api.sent # Unsent
  /\ \E onLogin \in BOOLEAN :
       api' = [api EXCEPT !.cachedToken = NoToken, !.fresh = FALSE,
                          !.storage = IF onLogin THEN @ ELSE NoToken,
                          !.sent = IF onLogin THEN @ ELSE Unsent]
  /\ ApiFrame

\* ---- calls made one at a time ---------------------------------------------
\* nothing is in flight: no open, no request, no pass in its loop
Quiet ==
  /\ opens = <<>>
  /\ idb = <<>>
  /\ \A p \in Passes : pass[p].pc = "idle"
  /\ rejected = {}

\* the application awaits each call before it makes the next one; the page
\* is reloaded between calls, and the host stays online
AwaitedAdd == Quiet /\ AddToSyncQueue
AwaitedRemove == Quiet /\ RemoveFromSyncQueue
AwaitedSync(p) == Quiet /\ SyncWhenOnline(p)
AwaitedReload == Quiet /\ Reload

NextAwaited ==
  \/ Tick
  \/ OpenSuccess
  \/ OpenError
  \/ LoadSuccess
  \/ AwaitedAdd
  \/ AddSuccess
  \/ AddError
  \/ AwaitedRemove
  \/ DeleteSuccess
  \/ DeleteError
  \/ \E p \in Solo : AwaitedSync(p)
  \/ \E p \in Passes : SubmitTrue(p)
  \/ \E p \in Passes : SubmitFalse(p)
  \/ \E p \in Passes : SubmitThrow(p)
  \/ Acknowledge
  \/ AwaitedReload

SpecAwaited == Init /\ [][NextAwaited]_vars

\* ---- calls made one at a time, every await settling -----------------------
\* a syncFunction call that is awaited settles
Settle == \E p \in Passes : SubmitTrue(p) \/ SubmitFalse(p) \/ SubmitThrow(p)

\* IndexedDB answers a delete request with success or error
ServeDelete == DeleteSuccess \/ DeleteError

\* the calls of one tab that enqueues and replays, each awaited; the
\* database opens, and all happens within one millisecond
NextPass ==
  \/ OpenSuccess
  \/ LoadSuccess
  \/ AwaitedAdd
  \/ AddSuccess
  \/ AddError
  \/ DeleteSuccess
  \/ DeleteError
  \/ \E p \in Solo : AwaitedSync(p)
  \/ \E p \in Passes : SubmitTrue(p)
  \/ \E p \in Passes : SubmitFalse(p)
  \/ \E p \in Passes : SubmitThrow(p)
  \/ Acknowledge
  \/ AwaitedReload

FairPass ==
  Init /\ [][NextPass]_vars /\ WF_vars(Settle) /\ WF_vars(ServeDelete)

\* ---- calls made while a pass runs -----------------------------------------
\* no call of the application is pending: the pass may be in its loop
NoCallPending ==
  /\ opens = <<>>
  /\ \A k \in 1..Len(idb) : idb[k].by # 0
  /\ rejected = {}

\* the application enqueues and removes while syncWhenOnline is running,
\* awaiting each of its own calls; all within one millisecond, so that a
\* removal frees an id which the next call can generate again
DuringAdd == NoCallPending /\ AddToSyncQueue
DuringRemove == NoCallPending /\ RemoveFromSyncQueue
DuringSync(p) == NoCallPending /\ SyncWhenOnline(p)

NextInterleaved ==
  \/ OpenSuccess
  \/ LoadSuccess
  \/ DuringAdd
  \/ AddSuccess
  \/ DuringRemove
  \/ DeleteSuccess
  \/ DeleteError
  \/ \E p \in Solo : DuringSync(p)
  \/ \E p \in Passes : SubmitTrue(p)
  \/ \E p \in Passes : SubmitFalse(p)
  \/ \E p \in Passes : SubmitThrow(p)
  \/ Acknowledge

SpecInterleaved == Init /\ [][NextInterleaved]_vars

\* ---- connectivity changes -------------------------------------------------
\* awaited calls of a tab that enqueues and replays while the host goes
\* offline and comes back; syncFunction resolves and the deletes succeed
NextReconnect ==
  \/ OpenSuccess
  \/ LoadSuccess
  \/ AwaitedAdd
  \/ AddSuccess
  \/ DeleteSuccess
  \/ \E p \in Solo : AwaitedSync(p)
  \/ \E p \in Passes : SubmitTrue(p)
  \/ \E p \in Passes : SubmitFalse(p)
  \/ Acknowledge
  \/ GoOffline
  \/ GoOnline

SpecReconnect == Init /\ [][NextReconnect]_vars

\* ---- calls made before the database is ready ------------------------------
\* addToSyncQueue is called without waiting for the init() of the import
\* or for earlier calls
NextEarly ==
  \/ Tick
  \/ OpenSuccess
  \/ OpenError
  \/ LoadSuccess
  \/ AddToSyncQueue
  \/ AddSuccess
  \/ AddError
  \/ Acknowledge

SpecEarly == Init /\ [][NextEarly]_vars

\* ---- overlapping replays --------------------------------------------------
\* syncWhenOnline is called again while an earlier invocation is in its
\* loop; the operations were enqueued before, syncFunction resolves
NextOverlap ==
  \/ OpenSuccess
  \/ LoadSuccess
  \/ AwaitedAdd
  \/ AddSuccess
  \/ DeleteSuccess
  \/ \E p \in Passes : DuringSync(p)
  \/ \E p \in Passes : SubmitTrue(p)
  \/ \E p \in Passes : SubmitFalse(p)
  \/ Acknowledge

SpecOverlap == Init /\ [][NextOverlap]_vars

\* ---- reloads during a pass -------------------------------------------------
\* awaited calls of a tab that is reloaded at any moment, also while a
\* syncWhenOnline invocation is in its loop or awaits a delete
NextCrash ==
  \/ OpenSuccess
  \/ LoadSuccess
  \/ AwaitedAdd
  \/ AddSuccess
  \/ DeleteSuccess
  \/ \E p \in Solo : AwaitedSync(p)
  \/ \E p \in Passes : SubmitTrue(p)
  \/ \E p \in Passes : SubmitFalse(p)
  \/ Acknowledge
  \/ Reload

SpecCrash == Init /\ [][NextCrash]_vars

\* ---- the offline cache beside the queue -----------------------------------
\* storeOffline and getOffline are called at any moment, also before the
\* init() of the import has finished or after it has failed; the
\* addToSyncQueue calls are awaited and the page is reloaded between them
NextCache ==
  \/ OpenSuccess
  \/ OpenError
  \/ LoadSuccess
  \/ AwaitedAdd
  \/ AddSuccess
  \/ AwaitedReload
  \/ StoreOffline
  \/ GetOffline
  \/ OpenSuccessCached
  \/ OpenErrorCached
  \/ \E n \in Partitions : PutSuccess(n)
  \/ \E n \in Partitions : GetSuccess(n)
  \/ PutQueueSuccess
  \/ GetQueueSuccess

SpecCache == Init /\ [][NextCache]_vars

\* ---- the queue beside the offline cache -----------------------------------
\* awaited queue calls, with storeOffline calls made at any moment, one
\* after the other; syncFunction resolves and the deletes succeed
NextFrame ==
  \/ OpenSuccess
  \/ LoadSuccess
  \/ AwaitedAdd
  \/ AddSuccess
  \/ AwaitedRemove
  \/ DeleteSuccess
  \/ \E p \in Solo : AwaitedSync(p)
  \/ \E p \in Passes : SubmitTrue(p)
  \/ \E p \in Passes : SubmitFalse(p)
  \/ Acknowledge
  \/ StoreOffline
  \/ OpenSuccessCached
  \/ \E n \in Partitions : PutSuccess(n)
  \/ PutQueueSuccess

SpecFrame == Init /\ [][NextFrame]_vars

\* ---- the indicator of a tab -----------------------------------------------
\* a component using the hook is mounted and unmounted while the tab
\* enqueues and replays, awaiting its calls, and the host goes offline and
\* comes back; syncFunction resolves true; the interval keeps firing
NextHook ==
  \/ OpenSuccess
  \/ LoadSuccess
  \/ AwaitedAdd
  \/ AddSuccess
  \/ DeleteSuccess
  \/ \E p \in Solo : AwaitedSync(p)
  \/ \E p \in Passes : SubmitTrue(p)
  \/ Acknowledge
  \/ GoOffline
  \/ GoOnline
  \/ Render
  \/ Effect
  \/ Poll
  \/ Unmount

FairHook == Init /\ [][NextHook]_vars /\ WF_vars(Poll)

\* ---- sessions of the api client --------------------------------------------
\* users log in and out, requests are sent at any moment, the cache ages,
\* the server answers 401, the page is reloaded
NextApi ==
  \/ SetAuth
  \/ Logout
  \/ Expire
  \/ Request
  \/ Unauthorized
  \/ Reload

SpecApi == Init /\ [][NextApi]_vars

\* ---- properties ---------------------------------------------------------
InMirror(d) == \E h \in Range(syncQueue) : h.data = d
InStore(d) == \E r \in store : r.data = d
Gone(d) == ~InMirror(d) /\ ~InStore(d)

\* a pass is awaiting the delete of the operation with payload d
PassRemoving(d) ==
  \E p \in Passes : /\ pass[p].pc = "remove"
                    /\ pass[p].queue[pass[p].i].data = d

Entries(p) == {pass[p].log[k] : k \in 1..Len(pass[p].log)}

\* C1: the operations enqueued in this page session by awaited
\* addToSyncQueue calls (the n-th call carries payload n), as far as they are
\* still queued, are listed by getSyncQueue in the order they were enqueued,
\* whatever removeFromSyncQueue calls came in between.
C1_FifoListing ==
  \A j, k \in 1..Len(getSyncQueue) :
    (j < k /\ getSyncQueue[j].inc = 0 /\ getSyncQueue[k].inc = 0)
      => getSyncQueue[j].data < getSyncQueue[k].data

\* three were enqueued, the second was removed, the other two are listed
C1_Witness ==
  /\ Len(getSyncQueue) = 2
  /\ getSyncQueue[1].data = 1 /\ getSyncQueue[1].inc = 0
  /\ getSyncQueue[2].data = 3 /\ getSyncQueue[2].inc = 0

\* C2: when a syncWhenOnline call made while online has returned, every
\* syncFunction call of it having resolved true (and, the database being
\* open, every delete it awaited having succeeded), the queue is empty in
\* the mirror and in the object store, and syncFunction was invoked exactly
\* once for each operation of the snapshot taken when the call started.
C2_Delivery ==
  \A p \in Passes :
    (/\ pass[p].pc = "done"
     /\ dbOpen
     /\ \A e \in Entries(p) : e.res = "true" /\ e.del = "ok")
    => /\ syncQueue = <<>>
       /\ store = {}
       /\ Len(pass[p].log) = Len(pass[p].queue)
       /\ \A k \in 1..Len(pass[p].log) :
            pass[p].log[k].data = pass[p].queue[k].data

C2_Witness ==
  \E p \in Passes :
    /\ pass[p].pc = "done"
    /\ Len(pass[p].log) = 3
    /\ \A e \in Entries(p) : e.res = "true" /\ e.del = "ok"
    /\ syncQueue = <<>>

\* C3 as stated: an operation whose syncFunction calls all resolve false is
\* still queued after each of the first 4 calls and is removed by the 5th.
C3_RemovedByFifth ==
  \A d \in Ops :
    /\ streak[d] <= 5
    /\ streak[d] \in 1..4 => InMirror(d) /\ InStore(d) /\ ~PassRemoving(d)
    /\ streak[d] = 5 => PassRemoving(d)

\* C3, amended: within a page session, an operation whose syncFunction calls
\* all resolve false is still queued after each of the first 5 calls, and
\* the 6th call makes the pass remove it: the delete, once it has
\* succeeded, leaves it in neither the mirror nor the object store.
C3_RemovedBySixth ==
  /\ \A d \in Ops :
       /\ streak[d] <= 6
       /\ streak[d] \in 1..5 => InMirror(d) /\ InStore(d) /\ ~PassRemoving(d)
       /\ streak[d] = 6 => PassRemoving(d)
  /\ \A p \in Passes : \A e \in Entries(p) :
       (e.res = "false" /\ e.del = "ok") => Gone(e.data)

C3_Witness ==
  \E p \in Passes : \E e \in Entries(p) :
    /\ pass[p].pc = "done"
    /\ e.res = "false" /\ e.seen = 5 /\ e.del = "ok"
    /\ Gone(e.data)

\* C4: when syncFunction has resolved false for an operation, its retries
\* are one more than they were, and the pass awaited its removal if and only
\* if that count is greater than 5: removed, it is gone when the pass ends;
\* otherwise it is still queued, with the incremented count.
C4_CeilingRule ==
  \A p \in Passes : \A e \in Entries(p) :
    (pass[p].pc = "done" /\ e.res = "false")
    => /\ (e.seen + 1 > 5) <=> (e.del # "none")
       /\ e.del = "ok" => Gone(e.data)
       /\ e.del = "none" =>
            /\ InStore(e.data)
            /\ \E k \in 1..Len(Listed) :
                 Listed[k].data = e.data /\ Listed[k].retries = e.seen + 1

\* a pass with an operation left at 5 retries and one whose count went past
C4_Witness ==
  \E p \in Passes : \E e \in Entries(p) :
    /\ pass[p].pc = "done"
    /\ e.res = "false" /\ e.seen = 4 /\ e.del = "none"
    /\ InMirror(e.data)

\* C5: a syncFunction call that throws is handled as one that resolves
\* false: the retries are one more, and the pass awaited the removal of the
\* operation if and only if that count is greater than 5.
C5_ThrowLikeFalse ==
  \A p \in Passes : \A e \in Entries(p) :
    (pass[p].pc = "done" /\ e.res = "throw")
    => /\ (e.seen + 1 > 5) <=> (e.del # "none")
       /\ e.del = "ok" => Gone(e.data)

\* C6: a pass over three operations A, B, C in which syncFunction resolved
\* true for A and C (their deletes succeeding) and false for B, first failure
\* of B, has attempted all three and leaves exactly B queued, in the mirror
\* and in the object store, with 1 retry.
C6_PartialFailure ==
  \A p \in Passes :
    (/\ pass[p].pc = "done"
     /\ Len(pass[p].queue) = 3
     /\ \A k \in 1..Len(pass[p].log) :
          IF k = 2
          THEN pass[p].log[k].res = "false" /\ pass[p].log[k].seen = 0
          ELSE pass[p].log[k].res = "true" /\ pass[p].log[k].del = "ok")
    => /\ Len(pass[p].log) = 3
       /\ Len(Listed) = 1
       /\ Listed[1].data = pass[p].queue[2].data
       /\ Listed[1].id = pass[p].queue[2].id
       /\ Listed[1].retries = 1
       /\ store = {[id |-> pass[p].queue[2].id,
                    data |-> pass[p].queue[2].data, retries |-> 0]}

C6_Witness ==
  \E p \in Passes :
    /\ pass[p].pc = "done"
    /\ Len(pass[p].log) = 3
    /\ pass[p].log[1].res = "true" /\ pass[p].log[1].del = "ok"
    /\ pass[p].log[2].res = "false" /\ pass[p].log[2].seen = 0
    /\ pass[p].log[3].res = "true" /\ pass[p].log[3].del = "ok"
    /\ Len(Listed) = 1 /\ Listed[1].retries = 1

\* the getAll of loadSyncQueue is served in this step
LoadServed ==
  /\ idb # <<>>
  /\ Head(idb).op = "getAll"
  /\ idb' = Tail(idb)
  /\ dbOpen'

\* C7: the queue that loadSyncQueue rebuilds from the object store lists the
\* stored operations in the order they were enqueued (awaited calls: the
\* order of their payloads), each with 0 retries.
C7_RoundTrip ==
  [][LoadServed =>
       /\ {syncQueue'[k].data : k \in 1..Len(syncQueue')}
            = {r.data : r \in store}
       /\ \A k \in 1..Len(syncQueue') : retries'[syncQueue'[k]] = 0
       /\ \A j, k \in 1..Len(syncQueue') :
            j < k => syncQueue'[j].data < syncQueue'[k].data]_vars

\* the retries of the queued operation with payload d: what getSyncQueue
\* shows, or what the stored record holds while the mirror has not got it
RetryCount(sq, rt, st, d) ==
  IF \E h \in Range(sq) : h.data = d
  THEN rt[CHOOSE h \in Range(sq) : h.data = d]
  ELSE (CHOOSE r \in st : r.data = d).retries

\* C8: the retry count of an operation never decreases while it is queued.
C8_RetriesMonotone ==
  [][\A d \in Ops :
       ((InMirror(d) \/ InStore(d)) /\ (InMirror(d) \/ InStore(d))')
       => RetryCount(syncQueue', retries', store', d)
            >= RetryCount(syncQueue, retries, store, d)]_vars

\* C9: when a pass ends, an operation it attempted is gone from the queue
\* exactly if syncFunction resolved true for it or its retry count, after
\* the attempt, exceeds 5 (its delete, if one was awaited, not having failed).
C9_DeletedExactlyWhen ==
  \A p \in Passes : \A e \in Entries(p) :
    (pass[p].pc = "done" /\ e.del # "failed")
    => ((e.res = "true" \/ (e.res # "true" /\ e.seen + 1 > 5))
          <=> Gone(e.data))

\* C10: in the step in which an addToSyncQueue promise rejects (store.add
\* failed, or the database could not be opened) the mirror, its objects and
\* the object store stay as they were, and the operation is in neither.
C10_EnqueueAtomic ==
  [][\A d \in rejected' \ rejected :
       /\ syncQueue' = syncQueue
       /\ retries' = retries
       /\ store' = store
       /\ Gone(d)']_vars

\* a call was rejected while an operation enqueued before it is queued
C10_Witness ==
  /\ rejected # {}
  /\ syncQueue # <<>>
  /\ store # {}

\* the store.add of an addToSyncQueue call succeeds in this step: its
\* promise resolves with syncItem.id
AddResolves ==
  /\ idb # <<>>
  /\ Head(idb).op = "add"
  /\ idb' = Tail(idb)
  /\ rejected' = rejected

\* the id an addToSyncQueue promise resolves with in this step
ResolvedId == Head(idb).item.id

\* C11: at the moment an addToSyncQueue promise resolves, the id it resolves
\* with is that of a record that was not in the object store before, is in
\* it now with retries 0, and is the last element of the mirror, there too
\* with retries 0 and with the payload of the call.
C11_AddPostcondition ==
  [][AddResolves =>
       /\ \A r \in store : r.id # ResolvedId
       /\ \E r \in store' :
            /\ r.id = ResolvedId
            /\ r.retries = 0
            /\ r.data = Head(idb).item.data
       /\ Len(syncQueue') = Len(syncQueue) + 1
       /\ LET last == syncQueue'[Len(syncQueue')] IN
            /\ last.id = ResolvedId
            /\ last.data = Head(idb).item.data
            /\ retries'[last] = 0
       /\ \A k \in 1..Len(syncQueue) : syncQueue'[k] = syncQueue[k]]_vars

\* three calls have resolved one after the other: each was put last
C11_Witness ==
  /\ Len(syncQueue) = 3
  /\ \A k \in 1..3 : syncQueue[k].data = k /\ syncQueue[k].inc = 0
  /\ Cardinality(store) = 3

\* no two queued operations have the same id, in the mirror or in the store
UniqueIds ==
  /\ \A j, k \in 1..Len(syncQueue) :
       j # k => syncQueue[j].id # syncQueue[k].id
  /\ \A r, q \in store : r.id = q.id => r = q

\* the request served in this step is a store.add whose key is in use
CollidingAddServed ==
  /\ idb # <<>>
  /\ Head(idb).op = "add"
  /\ \E r \in store : r.id = Head(idb).item.id
  /\ idb' = Tail(idb)
  /\ dbOpen'

\* C12: no two queued operations ever have the same id; an addToSyncQueue
\* call whose generated id is that of a queued operation adds no record:
\* store and mirror stay as they are and its promise rejects.
C12_UniqueIds ==
  /\ []UniqueIds
  /\ [][CollidingAddServed =>
          /\ store' = store
          /\ syncQueue' = syncQueue
          /\ Head(idb).item.data \in rejected']_vars

\* every id the clock allows is taken by the two queued operations, so the
\* third call, which was rejected, had generated the id of one of them
C12_Witness ==
  /\ rejected = {3}
  /\ Len(syncQueue) = 2
  /\ \A k \in 1..2 : syncQueue[k].inc = 0 /\ syncQueue[k].id.ts = now
  /\ {r.id : r \in store} = {id \in Ids : id.ts = now}
  /\ dbOpen

\* syncFunction was invoked on every operation of the snapshot of pass p,
\* in the order of the snapshot
AllAttempted(p) ==
  /\ Len(pass[p].log) = Len(pass[p].queue)
  /\ \A k \in 1..Len(pass[p].log) : pass[p].log[k].data = pass[p].queue[k].data

Running(p) == pass[p].pc \in {"submit", "remove"}

\* C13: a syncWhenOnline call that has started its loop returns (its promise
\* resolves) whatever syncFunction does and whether the deletes it awaits
\* succeed or fail, provided each of them settles; and when it has returned,
\* syncFunction was invoked on every operation of its snapshot, those after
\* a failed one included.
C13_PassNeverFails ==
  /\ [](\A p \in Passes : pass[p].pc = "done" => AllAttempted(p))
  /\ \A p \in Passes : Running(p) ~> (pass[p].pc = "done")

\* a pass that has returned: the delete after a true result failed, then
\* syncFunction was invoked on the next operation, where it threw
C13_Witness ==
  \E p \in Passes :
    /\ pass[p].pc = "done"
    /\ Len(pass[p].log) = 2
    /\ pass[p].log[1].res = "true" /\ pass[p].log[1].del = "failed"
    /\ pass[p].log[2].res = "throw"

\* C14: in one syncWhenOnline invocation syncFunction is invoked at most
\* once for each operation: the k-th invocation is on the k-th object of the
\* snapshot, no two invocations are on the same operation or on the same id,
\* whatever the outcomes and whatever is enqueued or removed meanwhile.
C14_OncePerPass ==
  \A p \in Passes :
    /\ Len(pass[p].log) <= Len(pass[p].queue)
    /\ \A k \in 1..Len(pass[p].log) :
         pass[p].log[k].data = pass[p].queue[k].data
    /\ \A j, k \in 1..Len(pass[p].log) :
         j # k => /\ pass[p].queue[j].id # pass[p].queue[k].id
                  /\ pass[p].log[j].data # pass[p].log[k].data

\* a pass has invoked syncFunction on two operations, the first of which
\* failed; the first was then removed by the application and a third
\* operation enqueued, while the pass was in its loop
C14_Witness ==
  \E p \in Passes :
    /\ pass[p].pc = "submit"
    /\ Len(pass[p].log) = 1
    /\ pass[p].log[1].res = "false"
    /\ Len(pass[p].queue) = 2
    /\ Len(syncQueue) = 2
    /\ syncQueue[1].data = 2
    /\ syncQueue[2].data = 3

\* C15: in one syncWhenOnline invocation syncFunction is invoked on the
\* operations in the order they were enqueued (awaited calls: the order of
\* their payloads), also on a queue that loadSyncQueue rebuilt after a
\* reload.
C15_FifoSubmit ==
  \A p \in Passes : \A j, k \in 1..Len(pass[p].log) :
    j < k => pass[p].log[j].data < pass[p].log[k].data

\* syncWhenOnline, called in this step, takes its snapshot: getSyncQueue()
TakesSnapshot(p) ==
  /\ Idle(p)
  /\ pass'[p] # pass[p]
  /\ pass'[p] = Started(getSyncQueue)

\* the objects of the array pass p got from getSyncQueue that are reachable
\* before and after this step
Tracked(p) == Range(pass[p].queue) \cap DOMAIN retries \cap DOMAIN retries'

\* C16 as stated: getSyncQueue changes nothing, and the array it returned
\* keeps its ids, their order and the retry count of each record, whatever
\* is enqueued, removed or replayed afterwards.
C16_SnapshotFrozen ==
  [][\A p \in Passes :
       /\ TakesSnapshot(p) =>
            syncQueue' = syncQueue /\ store' = store /\ retries' = retries
       /\ (Running(p) /\ Running(p)') =>
            /\ pass'[p].queue = pass[p].queue
            /\ \A h \in Tracked(p) : retries'[h] = retries[h]]_vars

\* a step of a replay: a syncFunction call settles or the delete a pass
\* awaits is answered
ReplayStep == \E p \in Passes : Running(p) /\ pass'[p] # pass[p]

\* C16, amended: getSyncQueue changes nothing, and the array it returned
\* keeps its ids and their order whatever is enqueued, removed or replayed
\* afterwards; its records are the objects of the queue itself, so their
\* retry counts are those of the queue: no enqueue or remove changes them,
\* a replay increments them, nothing decreases them.
C16_SnapshotShared ==
  [][\A p \in Passes :
       /\ TakesSnapshot(p) =>
            syncQueue' = syncQueue /\ store' = store /\ retries' = retries
       /\ (Running(p) /\ Running(p)') =>
            /\ pass'[p].queue = pass[p].queue
            /\ \A h \in Tracked(p) :
                 /\ retries'[h] >= retries[h]
                 /\ retries'[h] # retries[h] => ReplayStep]_vars

\* while a pass holds its snapshot of two operations, the first has failed
\* and been removed by the application, a third has been enqueued, and the
\* second, still in the snapshot, has had its retries incremented
C16_Witness ==
  \E p \in Passes :
    /\ pass[p].pc = "done"
    /\ Len(pass[p].queue) = 2
    /\ Len(pass[p].log) = 2
    /\ pass[p].log[2].res = "false"
    /\ Len(syncQueue) = 2
    /\ syncQueue[1] = pass[p].queue[2]
    /\ retries[syncQueue[1]] = 1
    /\ syncQueue[2].data = 3

\* the store.delete of a removeFromSyncQueue call made by the application
\* is answered in this step
RemoveServed ==
  /\ idb # <<>>
  /\ Head(idb).op = "delete"
  /\ Head(idb).by = 0
  /\ idb' = Tail(idb)
  /\ dbOpen'

\* C17: removeFromSyncQueue does not reject because of its id: the delete
\* it places can always succeed, for an id that is queued, for one that is
\* not, and for one that was removed before.  A call on an id that is not
\* queued leaves mirror, objects and object store as they are; a call on a
\* queued id, when its delete succeeds, removes exactly that record from the
\* object store and every item with that id from the mirror.  An id that
\* getSyncQueue lists is never met with the database not open (where the
\* call returns at once).
C17_RemoveIdempotent ==
  /\ [](syncQueue # <<>> => dbOpen)
  /\ []((idb # <<>> /\ Head(idb).op = "delete") => ENABLED DeleteSuccess)
  /\ [][RemoveServed =>
          LET id == Head(idb).id
              present == \E r \in store : r.id = id
          IN /\ ~present =>
                  /\ store' = store
                  /\ syncQueue' = syncQueue
                  /\ retries' = retries
             /\ store' # store =>
                  /\ store' = {r \in store : r.id # id}
                  /\ syncQueue' = Filter(syncQueue, id)
                  /\ \A h \in Range(syncQueue') : h.id # id]_vars

\* the first operation has been removed; a second removeFromSyncQueue call
\* with its id is in flight while the second operation is queued
C17_Witness ==
  /\ Len(idb) = 1
  /\ Head(idb).op = "delete"
  /\ Head(idb).by = 0
  /\ \A r \in store : r.id # Head(idb).id
  /\ nextData = 3
  /\ Len(syncQueue) = 1
  /\ syncQueue[1].data = 2
  /\ syncQueue[1].inc = 0

\* C18: the sync service never discards a queued operation before
\* syncFunction has resolved true for it: when the delete awaited by a pass
\* takes an operation out of the object store, that pass has had a true
\* result for it.
C18_NoDataLoss ==
  [][\A d \in Ops :
       (/\ InStore(d)
        /\ ~InStore(d)'
        /\ idb # <<>>
        /\ Head(idb).op = "delete"
        /\ Head(idb).by # 0
        /\ dbOpen')
       => \E e \in Entries(Head(idb).by) : e.data = d /\ e.res = "true"]_vars

\* C19: when the host comes back online with operations in the queue, a
\* pass over them is under way once the 'online' event has been handled
\* (the listeners run in the event; nothing else in the service starts a
\* pass later), without the application calling syncWhenOnline again.
C19_SyncOnReconnect ==
  [][(~online /\ online' /\ syncQueue # <<>>)
       => \E p \in Passes : Running(p)']_vars

\* the getAll requests of loadSyncQueue in flight
LoadsInFlight == {k \in 1..Len(idb) : idb[k].op = "getAll"}

\* C20: however many callers trigger init() before the database is ready,
\* one indexedDB.open and one loadSyncQueue run: never two open requests in
\* flight, none once this.db is set, never two getAll of loadSyncQueue.
C20_SingleInit ==
  /\ Len(opens) <= 1
  /\ dbOpen => opens = <<>>
  /\ Cardinality(LoadsInFlight) <= 1

\* syncWhenOnline is called in this step with the host online
CalledOnline(p) ==
  /\ online
  /\ online'
  /\ Idle(p)
  /\ pass'[p] # pass[p]
  /\ pass'[p].pc # "idle"

\* C23: nothing keeps two syncWhenOnline invocations apart: a call made
\* while another invocation is in its loop takes the whole queue as its
\* snapshot, and an invocation that has reached an operation can have its
\* syncFunction call settle whatever the other invocation has done with that
\* operation; so two overlapping invocations both invoke syncFunction on the
\* same operation.
C23_NoReplayGuard ==
  /\ [][\A p \in Passes :
          CalledOnline(p) => pass'[p] = Started(getSyncQueue)]_vars
  /\ [](\A p \in Passes : pass[p].pc = "submit" => ENABLED SubmitTrue(p))

\* both invocations have invoked syncFunction on the first operation, and
\* neither has returned
C23_Witness ==
  /\ \A p \in Passes : Running(p)
  /\ \A p \in Passes : pass[p].queue[1].data = 1
  /\ \A p \in Passes : pass[p].queue[1] = pass[1].queue[1]
  /\ pass[1].i = 2
  /\ pass[1].log[1].res = "true"
  /\ pass[2].i = 1
  /\ pass[2].pc = "submit"

\* the invocations that take their snapshot in this step
Starting == {p \in Passes : Idle(p) /\ pass'[p] # pass[p] /\ pass'[p].pc # "idle"}

\* C24: one invocation, one pass: the 'online' event starts no more
\* invocations of the loop than syncWhenOnline calls were made by the
\* application while offline since the last such event (each of them gets
\* its one pass), however often the host goes offline and comes back.
C24_OnePassPerCall ==
  [][(~online /\ online') => Cardinality(Starting) <= owed]_vars

\* syncFunction is invoked by invocation p in this step: on the first item
\* of the snapshot just taken, or on the next item of the loop
Invokes(p) ==
  /\ pass'[p].pc = "submit"
  /\ pass[p].pc # "submit" \/ pass'[p].i # pass[p].i

\* C28: syncFunction is never invoked while navigator.onLine is false:
\* every step in which an invocation of the loop calls it, on its first
\* item or on a later one, is made with the host online.
C28_NeverOffline ==
  [][\A p \in Passes : Invokes(p) => online']_vars

\* the payloads of the snapshot invocation p iterates
Snapshot(p) == {pass[p].queue[k].data : k \in 1..Len(pass[p].queue)}

\* the delete that invocation p awaits settles in this step
Settles(p) ==
  /\ idb # <<>>
  /\ Head(idb).op = "delete"
  /\ Head(idb).by = p
  /\ idb' = Tail(idb)

\* C27: an operation enqueued after an invocation took its snapshot is not
\* submitted by that invocation (syncFunction is invoked on items of the
\* snapshot only) and the invocation does not take it out of the queue: a
\* delete the loop awaits leaves every queued operation outside the snapshot
\* in the mirror and in the store, so it is there for a later pass.
C27_LateOperationWaits ==
  /\ [](\A p \in Passes : \A e \in Entries(p) : e.data \in Snapshot(p))
  /\ [][\A p \in Passes : \A d \in Ops :
          (Settles(p) /\ InMirror(d) /\ d \notin Snapshot(p))
            => (InMirror(d) /\ InStore(d))']_vars

\* the page is reloaded in this step while an invocation is in its loop
Crash == dbOpen /\ ~dbOpen' /\ \E p \in Passes : ~Idle(p)

\* a delete of the key id is in flight
Deleting(id) == \E k \in 1..Len(idb) : idb[k].op = "delete" /\ idb[k].id = id

\* the getAll of loadSyncQueue is served in this step
Loads ==
  /\ idb # <<>>
  /\ Head(idb).op = "getAll"
  /\ idb' = Tail(idb)
  /\ dbOpen'

\* C25: a reload during a pass loses no operation whose removal had not
\* been requested: every record for which no delete is in flight is in the
\* store after the reload, the store is untouched until loadSyncQueue has
\* run, and the queue it builds holds exactly the operations of the store,
\* so the snapshot of the next pass has them.
C25_CrashSafe ==
  /\ [][Crash => \A r \in store : ~Deleting(r.id) => r \in store']_vars
  /\ [][(interrupted /\ ~dbOpen) => store' = store]_vars
  /\ [][(interrupted /\ Loads) =>
          {<<h.id, h.data>> : h \in Range(syncQueue')}
            = {<<r.id, r.data>> : r \in store}]_vars

\* after a reload during a pass over two operations, the first of them
\* already removed, the second is in the rebuilt queue and the next pass is
\* awaiting syncFunction on it
C25_Witness ==
  /\ interrupted
  /\ \E p \in Passes :
       /\ pass[p].pc = "submit"
       /\ Len(pass[p].queue) = 1
       /\ pass[p].queue[1].data = 2
  /\ ~InStore(1)

\* the open request of the init() of a getOffline call settles in this step
GetInits ==
  /\ opens # <<>>
  /\ Head(opens) = Cached
  /\ Head(waiting).op = "get"
  /\ opens' = Tail(opens)
  /\ waiting' = Tail(waiting)

\* a getOffline call is made in this step: it joins the calls that wait
\* for their init(), or its request joins those in flight
GetCalled ==
  /\ ~GetInits
  /\ \/ /\ Len(waiting') > Len(waiting)
        /\ waiting'[Len(waiting')].op = "get"
     \/ /\ Len(idb') > Len(idb)
        /\ idb'[Len(idb')].op = "get"
     \/ \E n \in Partitions :
          /\ Len(edb'[n]) > Len(edb[n])
          /\ edb'[n][Len(edb'[n])].op = "get"

\* the loadSyncQueue of the init() of a getOffline call is served
GetLoaded == Loads /\ Head(idb).by = Getting

\* the get or getAll of a getOffline call on the entity store n is served
GetServed(n) ==
  /\ edb[n] # <<>>
  /\ Head(edb[n]).op = "get"
  /\ edb'[n] = Tail(edb[n])
  /\ dbOpen'

\* the get or getAll of a getOffline call is served
GetSettled ==
  \/ idb # <<>> /\ Head(idb).op = "get" /\ idb' = Tail(idb) /\ dbOpen'
  \/ \E n \in Partitions : GetServed(n)

\* a get of a key that has no record resolves, with undefined
AbsentResolves ==
  \A n \in Partitions : \A k \in Keys :
    (GetServed(n) /\ Head(edb[n]).key = k /\ parts[n][k] = Absent)
      => got' = Resolved(n, k, <<>>)

\* C21 as stated: no step of a getOffline call (the call, the init() it
\* may run with all that init() does, the get) changes a durable store or
\* what getSyncQueue shows, and a get of an absent key resolves with
\* undefined.
C21_ReadOnly ==
  /\ [][(GetCalled \/ GetInits \/ GetLoaded \/ GetSettled)
         => (store' = store /\ parts' = parts /\ Listed' = Listed)]_vars
  /\ [][AbsentResolves]_vars

\* C21, amended: getOffline changes no durable store, and a get of an
\* absent key resolves with undefined. Called with this.db set it opens
\* nothing and leaves the queue in memory alone; called without, it runs
\* init(), whose loadSyncQueue sets the queue in memory to the records of
\* the syncQueue store, and that is the only step of the call which changes
\* what getSyncQueue shows.
C21_ReadOnlyButInit ==
  /\ [][(GetCalled \/ GetInits \/ GetLoaded \/ GetSettled)
         => (store' = store /\ parts' = parts)]_vars
  /\ [][(GetCalled \/ GetInits \/ GetSettled) => Listed' = Listed]_vars
  /\ [][(GetCalled /\ dbOpen) => (opens' = opens /\ waiting' = waiting)]_vars
  /\ [][GetLoaded => Range(Listed') = store]_vars
  /\ [][AbsentResolves]_vars

\* getOffline(n, 1) has resolved with undefined while the queue and another
\* entity store hold records
C21_Witness ==
  /\ \E n \in Partitions : got = Resolved(n, 1, <<>>)
  /\ \E n \in Partitions : parts[n][1] # Absent
  /\ syncQueue # <<>>
  /\ store # {}

\* C26: whenever no call is in progress (no open awaited, no request in
\* flight on any store), the ids of the queue in memory are the keys of the
\* syncQueue store, whatever init, addToSyncQueue and storeOffline calls
\* (on 'syncQueue' too) were made.
C26_MirrorAgrees ==
  (opens = <<>> /\ idb = <<>> /\ Settled)
    => {h.id : h \in Range(syncQueue)} = {r.id : r \in store}

\* the put of a storeOffline call on the entity store n is served
PutServed(n) ==
  /\ edb[n] # <<>>
  /\ Head(edb[n]).op = "put"
  /\ edb'[n] = Tail(edb[n])
  /\ parts' = [parts EXCEPT ![n] = Stored(@, Head(edb[n]))]

\* C22: the entity stores transactions, inventory, customers and products
\* are written by storeOffline only: every step of addToSyncQueue,
\* removeFromSyncQueue and syncWhenOnline (the calls, the requests they
\* place being served, the loop) leaves their contents as they are, and a
\* step that changes them is the put of a storeOffline call being served.
C22_QueueLeavesCache ==
  [][parts' # parts => \E n \in Partitions : PutServed(n)]_vars

\* a pass has removed an operation it got true for while a cached
\* transaction and a cached product were in their stores, and they still are
C22_Witness ==
  /\ parts["transactions"][1] # Absent
  /\ parts["products"][1] # Absent
  /\ \E p \in Passes : \E e \in Entries(p) : e.res = "true" /\ e.del = "ok"
  /\ nextData > MaxOps

\* the hook is polling
Polling == hook.phase = "listening"

\* C29: the count of the hook follows the queue. It changes only when the
\* hook polls (at mount and when the interval fires), and then to the length
\* of the queue; while the hook is mounted and the queue keeps a length n,
\* the count becomes n; and OfflineIndicator renders nothing exactly when
\* the hook's isOnline is true and its count is 0, the offline banner or the
\* syncing banner otherwise.
C29_CountFollowsQueue ==
  /\ [][(Polling' /\ hook'.pendingSyncs # hook.pendingSyncs)
         => hook'.pendingSyncs = Len(syncQueue)]_vars
  /\ [][(Polling /\ ~Polling') => hook' = Unmounted]_vars
  /\ \A n \in 0..MaxOps :
       (Polling /\ Len(syncQueue) = n)
         ~> (hook.pendingSyncs = n \/ Len(syncQueue) # n \/ ~Polling)
  /\ [](hook.phase # "none" =>
         /\ Indicator(hook) = "null" <=> (hook.isOnline /\ hook.pendingSyncs = 0)
         /\ Indicator(hook) \in {"null", "offline", "syncing"})

\* online, the indicator shows two pending operations that the hook polled
\* after they were enqueued
C29_Witness ==
  /\ Polling
  /\ hook.isOnline
  /\ hook.pendingSyncs = 2
  /\ Len(syncQueue) = 2
  /\ Indicator(hook) = "syncing"

\* C30: no request sent after useAuthStore.logout() carries the token of
\* the session that was logged out, and the token a request carries is the
\* one 'auth-storage' holds when it is sent, none when the entry is absent.
C30_NoStaleToken ==
  /\ api.sent \notin api.revoked
  /\ api.sent # Unsent => api.sent = api.storage

TypeOK ==
  /\ now \in 1..MaxTime
  /\ Len(idb) <= MaxIdb
  /\ Sum(retries, DOMAIN retries) <= MaxFails
  /\ DOMAIN retries = Live(syncQueue, pass)
  /\ owed \in 0..Cardinality(Passes)
  /\ interrupted \in BOOLEAN
  /\ parts \in [Partitions -> [Keys -> Vals \cup {Absent}]]
  /\ EntityLoad <= MaxIdb
  /\ Len(waiting) <= MaxIdb
  /\ got.res \in {"none", "resolved", "rejected"}
  /\ hook.phase \in {"none", "rendered", "listening"}
  /\ hook.pendingSyncs \in 0..MaxOps
  /\ api.storage \in Tokens \cup {NoToken}
  /\ api.cachedToken \in Tokens \cup {NoToken}
  /\ api.sent \in Tokens \cup {NoToken, Unsent}
  /\ api.revoked \subseteq Tokens

====
